---- MODULE Spec2Model ----
(***************************************************************************)
(* Daylight: the request core of the syntax-highlighting server.           *)
(*                                                                         *)
(* The repository holds two generations of the HTML endpoint:              *)
(*   build = "lib" : lib/server.rs (HighlightOutput, NonFatalError,        *)
(*                   prepare_file_contents, highlight, html_handler,       *)
(*                   build_response)                                       *)
(*   build = "src" : src/server.rs (OwnedDocument, parse, html_handler,    *)
(*                   build_response)                                       *)
(* The state machine is one request travelling through html_handler: the   *)
(* synchronous prefix (decode, timeout check, one future per file), the    *)
(* blocking workers, the per-file timers, the polls of the                 *)
(* FuturesUnordered stream and the final build_response.                   *)
(***************************************************************************)
EXTENDS Integers, Sequences, FiniteSets, TLC

\* ------------------------------------------------------------------ bounds
MaxFiles == 2
MaxIdent == 1
SmallLen == 5
ShortTimeoutMs == 50
MaxEvents == 3
SpanContentsLen == 2

\* ------------------------------------------------------- program constants
MAX_FILE_SIZE == 268435456
DEFAULT_PER_FILE_TIMEOUT_MS == 30000
MAX_PER_FILE_TIMEOUT_MS == 60000
TOO_LARGE_TIMEOUT_MS == 120000
HIGHLIGHT_NAMES_LEN == 26

Builds == {"lib", "src"}

\* ------------------------------------------------------- language registry
\* languages::Config is identified by its fb_language tag.
all_languages == {"C", "Bash"}

EXTENSION_MAP ==
  [e \in {<<"c">>, <<"h">>, <<"sh">>, <<"bash">>} |->
     IF e \in {<<"c">>, <<"h">>} THEN "C" ELSE "Bash"]

from_extension(ext) ==
  IF ext \in DOMAIN EXTENSION_MAP THEN EXTENSION_MAP[ext] ELSE "None"

\* Filenames are sequences of characters; "." is the extension separator.
\* Path::extension: the part of the file name after its last ".", none when
\* there is no "." or the only "." is the first character.
LastDot(name) ==
  IF \E k \in 1..Len(name) : name[k] = "."
  THEN CHOOSE k \in 1..Len(name) :
         /\ name[k] = "."
         /\ \A j \in (k + 1)..Len(name) : name[j] # "."
  ELSE 0

PathExtension(name) ==
  IF LastDot(name) <= 1 THEN "None"
  ELSE SubSeq(name, LastDot(name) + 1, Len(name))

from_path(name) ==
  IF PathExtension(name) = "None" THEN "None"
  ELSE from_extension(PathExtension(name))

\* impl TryFrom<FbLanguage> for &'static Config, followed by .ok()
TryFromFbLanguage(tag) ==
  IF tag \in all_languages THEN tag ELSE "None"

\* ------------------------------------------------------------ request input
Filenames == { <<"t", ".", "c">>, <<"x", ".", "u", "n", "k">>, <<"R", "E">> }

Missing == [present |-> FALSE, len |-> 0]
ContentChoices ==
  {Missing} \cup
  {[present |-> TRUE, len |-> n] :
     n \in {0, SmallLen, MAX_FILE_SIZE, MAX_FILE_SIZE + 1}}

\* The declared tags a request of the model uses.
FileLanguages == {"Unspecified", "C", "Bash", "Unknown"}

Files ==
  [ident : 0..MaxIdent, filename : Filenames, language : FileLanguages,
   contents : ContentChoices]

\* The files of a batch of two or more: a declared or an undeclared language
\* on a name whose extension the registry does not know, empty or not.
BatchFiles ==
  [ident : 0..MaxIdent, filename : {<<"x", ".", "u", "n", "k">>},
   language : {"Unspecified", "C"},
   contents : {[present |-> TRUE, len |-> n] : n \in {0, SmallLen}}]

\* The handler never compares or computes with idents, so a batch names them
\* in order of first use: the first file has ident 0, and a later file
\* repeats an ident already used or takes the next unused one.
FirstUseOrder(files) ==
  \A i \in 1..Len(files) :
    \/ files[i].ident = 0
    \/ \E j \in 1..(i - 1) : files[j].ident + 1 >= files[i].ident

\* A request holds no file, any one file, or a batch.
FileLists ==
  {<<>>} \cup {<<f>> : f \in Files}
         \cup UNION {{b \in [1..n -> BatchFiles] : FirstUseOrder(b)} :
                       n \in 2..MaxFiles}

TimeoutChoices == {0, ShortTimeoutMs, TOO_LARGE_TIMEOUT_MS}

\* Batches take the default deadline or one that is too large; the short
\* explicit deadline is taken by the smaller requests.
Requests ==
  {r \in [decodes : BOOLEAN, timeout_ms : TimeoutChoices, files : FileLists] :
     Len(r.files) >= 2 => r.timeout_ms # ShortTimeoutMs}

\* The requests a client submits a second time: at most one file.
ResubmitRequests == {r \in Requests : Len(r.files) <= 1}

NoRequest == [decodes |-> FALSE, timeout_ms |-> 0, files |-> <<>>]

\* The server is started with any two timeouts: the command line's defaults,
\* or a default above the maximum.
Configs ==
  [default_per_file_timeout : {DEFAULT_PER_FILE_TIMEOUT_MS, TOO_LARGE_TIMEOUT_MS},
   max_per_file_timeout : {MAX_PER_FILE_TIMEOUT_MS}]

VARIABLES
  build,          \* which generation of the server is running
  state,          \* Daylight / AppState: the two configured timeouts
  request,        \* the request body being handled
  phase,          \* position of html_handler
  timeout,        \* the effective per-file deadline (ms), 0 before it is set
  timeout_flag,   \* the request's Arc<AtomicUsize>
  tasks,          \* the futures of the FuturesUnordered, one per file
  outcomes,       \* the outputs collected from the stream so far
  harvest_order,  \* file index of each collected output
  response,       \* what the handler returned
  previous,       \* the response to the same bytes submitted before
  body,           \* the request's Bytes buffer: who holds a reference to it
  threads,        \* per pool thread: its job and its thread-local values
  jobs_started,   \* jobs handed to the pool's threads so far
  handlers,       \* two html_handler calls in progress at once
  arcs,           \* the Arc<AtomicUsize> allocations: the value of each
  layout,         \* a decoded request buffer: its address, bytes and vectors
  views,          \* the content views made from it, one per file so far
  iter_res,       \* SpansProcessor::process: what highlighter.highlight returned
  span_outcome,   \* the Outcome process returned
  events,         \* SpansProcessor::process: the items of the highlight iterator
  cursor,         \* how many items the for loop has consumed
  active_index,   \* Option<usize>: <<>> or <<i>>
  spans,          \* Vec<(usize, usize, usize)>
  span_phase,     \* position of the Spans worker and of its build_response
  spans_document  \* the Span tables of the document on the wire

slice_vars == <<layout, views>>

handler_vars == <<handlers, arcs>>

thread_vars == <<threads, jobs_started>>

span_vars == <<iter_res, span_outcome, events, cursor, active_index, spans,
               span_phase, spans_document>>

vars == <<build, state, request, phase, timeout, timeout_flag, tasks,
          outcomes, harvest_order, response, previous, body, span_vars,
          thread_vars, handler_vars, slice_vars>>

NoOutcome == [variant |-> "None"]

\* ------------------------------------------------- the request's Bytes
\* A Bytes buffer is freed when its last handle is dropped.  handler: the
\* handler's `body`; slices: the files whose worker closure owns a
\* body.slice(..); released: the buffer was freed.
NoBody == [handler |-> FALSE, slices |-> {}, released |-> FALSE]

BytesNew == [handler |-> TRUE, slices |-> {}, released |-> FALSE]

BytesRelease(b) ==
  [b EXCEPT !.released = @ \/ (~b.handler /\ b.slices = {})]

\* Variant: a content view borrows the buffer without counting as a handle.
BytesSlice_Borrowed(b, S) == b

\* body.slice(offset..offset + len) for each file of S: one more handle each.
BytesSlice(b, S) == [b EXCEPT !.slices = @ \cup S]

BytesDropSlice(b, i) == BytesRelease([b EXCEPT !.slices = @ \ {i}])

BytesDropHandler(b) == BytesRelease([b EXCEPT !.handler = FALSE])

\* ------------------------------------------------ the buffer's layout
\* No buffer under inspection.
NoLayout == [base |-> 0, bytes |-> <<>>, vectors |-> <<>>]

\* ------------------------------------------------ concurrent requests
\* Two calls of html_handler whose lifetimes may overlap.
Handlers == {"first", "second"}

\* A call of the handler: its position, its files, the allocation its local
\* timeout_flag points to (0: not created yet), its futures and what it
\* collected from them.
IdleHandler ==
  [phase |-> "listening", files |-> <<>>, timeout_flag |-> 0, tasks |-> <<>>,
   outcomes |-> <<>>, harvest_order |-> <<>>]

\* ------------------------------------------------ thread-local values
\* The pool's threads; every thread has its own copy of each thread_local.
Threads == {"worker-1", "worker-2"}

\* thread_locals.rs: HIGHLIGHTER, HTML_RENDERER, RESPONSE_BUILDER;
\* lib/server.rs: PER_THREAD (highlighter and renderer in one RefCell).
Cells == {"HIGHLIGHTER", "HTML_RENDERER", "RESPONSE_BUILDER", "PER_THREAD"}

\* Jobs a thread runs to the end before it takes another.
JobKinds == {"process", "highlight", "build_response"}

NoJob == [kind |-> "idle", language |-> "None", len |-> 0]

\* The state of a pool thread: the job and its position, the RefCells with
\* an active mutable borrow, what each thread-local value holds, the value
\* the last finished job returned, and whether with_borrow_mut panicked.
IdleThread ==
  [job |-> NoJob, pc |-> "idle", borrowed |-> {},
   buffers |-> [c \in Cells |-> <<>>],
   returned |-> [kind |-> "idle", ok |-> FALSE, payload |-> <<>>,
                 language |-> "None", len |-> 0],
   partial |-> {}, ran |-> {}, borrow_error |-> FALSE]
NoResponse == [status |-> 0, documents |-> <<>>]

\* ------------------------------------------------------ lib/server.rs types
\* Variant: every error of the highlighter is reported as a timeout.
NonFatalError_from_ts_AllTimedOut(err) == "TimedOut"

\* impl From<ts::Error> for NonFatalError
NonFatalError_from_ts(err) ==
  CASE err = "Cancelled" -> "TimedOut"
    [] err = "InvalidLanguage" -> "InvalidLanguage"
    [] err = "Unknown" -> "UnknownError"

\* lib/errors.rs: impl From<tokio::task::JoinError> for NonFatalError
NonFatalError_from_JoinError(is_cancelled) ==
  IF is_cancelled THEN "Cancelled" ELSE "UnknownError"

\* Variant: Cancelled projected with the unknown errors.
NonFatalError_into_ErrorCode_CancelledUnknown(reason) ==
  CASE reason \in {"TimedOut"} -> "TimedOut"
    [] reason \in {"ThreadError", "UnknownError", "Cancelled"} -> "UnknownError"
    [] reason = "InvalidLanguage" -> "UnknownLanguage"
    [] reason = "FileTooLarge" -> "FileTooLarge"
    [] reason = "EmptyFile" -> "NoError"

\* impl Into<common::ErrorCode> for NonFatalError
NonFatalError_into_ErrorCode(reason) ==
  CASE reason \in {"TimedOut", "Cancelled"} -> "TimedOut"
    [] reason \in {"ThreadError", "UnknownError"} -> "UnknownError"
    [] reason = "InvalidLanguage" -> "UnknownLanguage"
    [] reason = "FileTooLarge" -> "FileTooLarge"
    [] reason = "EmptyFile" -> "NoError"

Success(ident, filename, language, lines) ==
  [variant |-> "Success", ident |-> ident, filename |-> filename,
   language |-> language, reason |-> "None", lines |-> lines,
   error_code |-> "None"]

Failure(ident, filename, language, reason) ==
  [variant |-> "Failure", ident |-> ident, filename |-> filename,
   language |-> language, reason |-> reason, lines |-> <<>>,
   error_code |-> "None"]

\* src/server.rs: the per-file result is the document itself
OwnedDocument(ident, filename, language, lines, error_code) ==
  [variant |-> "Owned", ident |-> ident, filename |-> filename,
   language |-> language, reason |-> "None", lines |-> lines,
   error_code |-> error_code]


\* HighlightOutput accessors (lib/server.rs)
HighlightOutput_ident(o) == o.ident

HighlightOutput_filename(o) ==
  IF o.variant = "Success" THEN o.filename ELSE <<>>

HighlightOutput_language(o) ==
  IF o.variant = "Success" THEN o.language
  ELSE IF o.language = "None" THEN "Unspecified" ELSE o.language

HighlightOutput_error_code(o) ==
  IF o.variant = "Success" THEN "NoError"
  ELSE NonFatalError_into_ErrorCode(o.reason)

\* The rendered lines of a file: one entry per run, determined by the
\* language configuration and the content bytes.
RenderLines(language, contents) == << <<language, contents.len>> >>

\* --------------------------------------------- lib/server.rs: per-file work
\* Variant: the filename's extension is consulted before the declared tag.
ResolveLanguage_ExtensionFirst(file) ==
  IF from_path(file.filename) # "None" THEN from_path(file.filename)
  ELSE TryFromFbLanguage(file.language)

ResolveLanguage(file) ==
  IF file.language = "Unspecified" THEN from_path(file.filename)
  ELSE TryFromFbLanguage(file.language)

\* Variant: the size test also refuses a file of exactly MAX_FILE_SIZE.
prepare_file_contents_SizeInclusive(file) ==
  LET language == ResolveLanguage(file) IN
  [language |-> language,
   result |->
     IF language = "None" THEN "InvalidLanguage"
     ELSE IF (~file.contents.present) \/ file.contents.len = 0 THEN "EmptyFile"
     ELSE IF file.contents.len >= MAX_FILE_SIZE THEN "FileTooLarge"
     ELSE "Ok"]

\* prepare_file_contents: the language written through the &mut parameter
\* and the Result (Ok, or the NonFatalError).
prepare_file_contents(file) ==
  LET language == ResolveLanguage(file) IN
  [language |-> language,
   result |->
     IF language = "None" THEN "InvalidLanguage"
     ELSE IF (~file.contents.present) \/ file.contents.len = 0 THEN "EmptyFile"
     ELSE IF file.contents.len > MAX_FILE_SIZE THEN "FileTooLarge"
     ELSE "Ok"]

\* highlight: the blocking worker's function; ts is what the highlighter and
\* the renderer returned.
highlight(file, language, ts) ==
  IF language = "None"
  THEN Failure(file.ident, file.filename, "None", "InvalidLanguage")
  ELSE IF ts = "Ok"
  THEN Success(file.ident, file.filename, language,
               RenderLines(language, file.contents))
  ELSE Failure(file.ident, file.filename, language, NonFatalError_from_ts(ts))

\* --------------------------------------------- src/server.rs: per-file work
parse_error_code(ts) ==
  CASE ts = "Cancelled" -> "Cancelled"
    [] ts = "InvalidLanguage" -> "UnknownLanguage"
    [] ts = "Unknown" -> "UnknownError"

parse(file, language, ts) ==
  IF ts = "Ok"
  THEN OwnedDocument(file.ident, file.filename, language,
                     RenderLines(language, file.contents), "NoError")
  ELSE OwnedDocument(file.ident, file.filename, language, <<>>,
                     parse_error_code(ts))

\* ------------------------------------------------- the futures of a request
\* Variant: the pre-resolved future is wrapped in a timeout as well.
ReadyFuture_Timed(o) ==
  [kind |-> "ready", ready |-> o, language |-> "None", task |-> "none",
   ts |-> "None", result |-> NoOutcome, timer |-> "armed", harvested |-> FALSE]

ReadyFuture(o) ==
  [kind |-> "ready", ready |-> o, language |-> "None", task |-> "none",
   ts |-> "None", result |-> NoOutcome, timer |-> "none", harvested |-> FALSE]

\* Variant: the deadline is not started with the future.
TimeoutFuture_Unarmed(language) ==
  [kind |-> "timeout", ready |-> NoOutcome, language |-> language,
   task |-> "queued", ts |-> "None", result |-> NoOutcome, timer |-> "none",
   harvested |-> FALSE]

\* timeout(duration, spawn_blocking(..)): the deadline is fixed when the
\* future is made, the closure waits for a thread of the blocking pool.
TimeoutFuture(language) ==
  [kind |-> "timeout", ready |-> NoOutcome, language |-> language,
   task |-> "queued", ts |-> "None", result |-> NoOutcome, timer |-> "armed",
   harvested |-> FALSE]

\* lib/server.rs html_handler, the closure mapped over request.files()
lib_future(file) ==
  LET p == prepare_file_contents(file) IN
  IF p.result # "Ok"
  THEN ReadyFuture(Failure(file.ident, file.filename, p.language, p.result))
  ELSE TimeoutFuture(p.language)

\* src/server.rs html_handler, the closure mapped over request.files();
\* todo!() panics the handler.
src_panics(file) ==
  /\ ~((~file.contents.present) \/ file.contents.len = 0)
  /\ file.language = "Unspecified"

src_future(file) ==
  IF (~file.contents.present) \/ file.contents.len = 0
  THEN ReadyFuture(OwnedDocument(file.ident, file.filename, file.language,
                                 <<>>, "NoError"))
  ELSE IF TryFromFbLanguage(file.language) = "None"
  THEN ReadyFuture(OwnedDocument(file.ident, file.filename, file.language,
                                 <<>>, "UnknownLanguage"))
  ELSE TimeoutFuture(TryFromFbLanguage(file.language))

\* The output of the worker's future once the blocking task is over.
WorkerOutput(b, file, language, ts) ==
  IF b = "lib" THEN highlight(file, language, ts) ELSE parse(file, language, ts)

\* The .map() on the JoinHandle: a JoinError becomes a failure of the file.
JoinErrorOutput(b, file, language, is_cancelled) ==
  IF b = "lib"
  THEN Failure(file.ident, file.filename, language,
               IF is_cancelled THEN "Cancelled" ELSE "ThreadError")
  ELSE OwnedDocument(file.ident, file.filename, file.language, <<>>,
                     "UnknownError")

\* Variant: the Elapsed branch loses the file's ident.
ElapsedOutput_NoIdent(b, file, language) ==
  IF b = "lib"
  THEN Failure(0, file.filename, language, "TimedOut")
  ELSE OwnedDocument(0, file.filename, file.language, <<>>, "TimedOut")

\* The .map() on tokio::time::timeout: the Elapsed branch.
ElapsedOutput(b, file, language) ==
  IF b = "lib"
  THEN Failure(file.ident, file.filename, language, "TimedOut")
  ELSE OwnedDocument(file.ident, file.filename, file.language, <<>>,
                     "TimedOut")

\* ----------------------------------------------------------- build_response
lib_document(o) ==
  [ident |-> HighlightOutput_ident(o),
   filename |-> HighlightOutput_filename(o),
   language |-> HighlightOutput_language(o),
   has_lines |-> TRUE,
   lines |-> IF o.variant = "Success" THEN o.lines ELSE <<>>,
   error_code |-> HighlightOutput_error_code(o)]

src_document(o) ==
  [ident |-> o.ident, filename |-> o.filename, language |-> o.language,
   has_lines |-> TRUE, lines |-> o.lines, error_code |-> o.error_code]

\* Variant: the documents are written last outcome first.
build_response_Reversed(b, doc_results) ==
  [status |-> 200,
   documents |->
     [k \in 1..Len(doc_results) |->
        IF b = "lib" THEN lib_document(doc_results[Len(doc_results) + 1 - k])
        ELSE src_document(doc_results[Len(doc_results) + 1 - k])]]

\* Variant: an empty document vector is answered 204 without a body.
build_response_NoContent(b, doc_results) ==
  [status |-> IF Len(doc_results) = 0 THEN 204 ELSE 200,
   documents |->
     [k \in 1..Len(doc_results) |->
        IF b = "lib" THEN lib_document(doc_results[k])
        ELSE src_document(doc_results[k])]]

build_response(b, doc_results) ==
  [status |-> 200,
   documents |->
     [k \in 1..Len(doc_results) |->
        IF b = "lib" THEN lib_document(doc_results[k])
        ELSE src_document(doc_results[k])]]

\* impl IntoResponse for FatalError / HtmlError
FatalResponse == [status |-> 400, documents |-> <<>>]


\* ------------------------------------------------------------------ actions
Init ==
  /\ build \in Builds
  /\ state \in Configs
  /\ request = NoRequest
  /\ phase = "listening"
  /\ timeout = 0
  /\ timeout_flag = 0
  /\ tasks = <<>>
  /\ outcomes = <<>>
  /\ harvest_order = <<>>
  /\ response = NoResponse
  /\ previous = NoResponse
  /\ body = NoBody
  /\ threads = [t \in Threads |-> IdleThread]
  /\ jobs_started = 0
  /\ handlers = [h \in Handlers |-> IdleHandler]
  /\ arcs = <<>>
  /\ layout = NoLayout
  /\ views = <<>>
  /\ iter_res = "Ok"
  /\ span_outcome = NoOutcome
  /\ events = <<>>
  /\ cursor = 0
  /\ active_index = <<>>
  /\ spans = <<>>
  /\ span_phase = "idle"
  /\ spans_document = <<>>

\* axum hands the request body to html_handler.
Receive(req) ==
  /\ phase = "listening"
  /\ request' = req
  /\ phase' = "received"
  /\ body' = BytesNew
  /\ UNCHANGED <<slice_vars, handler_vars, thread_vars, span_vars, build, state, previous, timeout, timeout_flag, tasks, outcomes,
                 harvest_order, response>>

\* The effective per-file deadline of a request.
EffectiveTimeout(st, timeout_ms) ==
  IF timeout_ms = 0 THEN st.default_per_file_timeout ELSE timeout_ms

\* Variant: no comparison with the maximum.
TimeoutTooLarge_Never(st, timeout_ms) == FALSE

\* Variant: a deadline equal to the maximum is refused as well.
TimeoutTooLarge_Inclusive(st, timeout_ms) ==
  EffectiveTimeout(st, timeout_ms) >= st.max_per_file_timeout

\* The comparison that raises FatalError::TimeoutTooLarge.
TimeoutTooLarge(st, timeout_ms) ==
  EffectiveTimeout(st, timeout_ms) > st.max_per_file_timeout

\* The index of the first file at which the src handler's closure panics,
\* 0 when none does.
FirstPanic(b, files) ==
  IF b = "src" /\ \E i \in 1..Len(files) : src_panics(files[i])
  THEN CHOOSE i \in 1..Len(files) :
         /\ src_panics(files[i])
         /\ \A j \in 1..(i - 1) : ~src_panics(files[j])
  ELSE 0

\* Variant: the handler keeps the counter of the request before.
NewTimeoutFlag_Reused(old) == old

\* Arc::default(): a new counter, whatever the request before left in its own.
NewTimeoutFlag(old) == 0

FutureOf(b, file) == IF b = "lib" THEN lib_future(file) ELSE src_future(file)

\* html_handler from its entry to the first await: decode, timeout check,
\* the cancellation flag, and one future per file pushed on the stream.
html_handler_start ==
  /\ phase = "received"
  /\ IF ~request.decodes
     THEN /\ phase' = "rejected"
          /\ response' = FatalResponse
          /\ UNCHANGED <<timeout, timeout_flag, tasks>>
     ELSE IF TimeoutTooLarge(state, request.timeout_ms)
     THEN /\ phase' = "rejected"
          /\ response' = FatalResponse
          /\ timeout' = EffectiveTimeout(state, request.timeout_ms)
          /\ UNCHANGED <<timeout_flag, tasks>>
     ELSE /\ timeout' = EffectiveTimeout(state, request.timeout_ms)
          /\ timeout_flag' = NewTimeoutFlag(timeout_flag)
          /\ IF Len(request.files) = 0
             THEN /\ phase' = "responded"
                  /\ response' = build_response(build, <<>>)
                  /\ tasks' = <<>>
             ELSE IF FirstPanic(build, request.files) # 0
             THEN /\ phase' = "panicked"
                  /\ response' = NoResponse
                  /\ tasks' = [i \in 1..(FirstPanic(build, request.files) - 1)
                                 |-> FutureOf(build, request.files[i])]
             ELSE /\ phase' = "collecting"
                  /\ response' = NoResponse
                  /\ tasks' = [i \in 1..Len(request.files)
                                 |-> FutureOf(build, request.files[i])]
  /\ body' =
       LET b == BytesSlice(body, {i \in DOMAIN tasks' : tasks'[i].kind = "timeout"})
       IN IF phase' = "collecting" THEN b ELSE BytesDropHandler(b)
  /\ UNCHANGED <<slice_vars, handler_vars, thread_vars, span_vars, build, state, previous, request, outcomes, harvest_order>>

Dispatched == phase \in {"collecting", "responded", "panicked"}

\* A thread of the blocking pool picks the task up.
WorkerStart(i) ==
  /\ Dispatched
  /\ i \in DOMAIN tasks
  /\ tasks[i].task = "queued"
  /\ tasks' = [tasks EXCEPT ![i].task = "running"]
  /\ UNCHANGED <<slice_vars, handler_vars, thread_vars, span_vars, body, build, state, previous, request, phase, timeout, timeout_flag,
                 outcomes, harvest_order, response>>

\* What the closure given to spawn_blocking leaves in the JoinHandle (ts is
\* what the highlighter returned); once the future was dropped the handle is
\* detached and the value is dropped.
\* Variant: the value of a detached handle is kept.
Completed_Kept(t, ts, o) ==
  [t EXCEPT !.task = "finished", !.ts = ts, !.result = o]

Completed(t, ts, o) ==
  [t EXCEPT !.task = "finished", !.ts = ts,
            !.result = IF t.harvested THEN NoOutcome ELSE o]

\* The highlighter runs to its end without seeing the flag set.
TsResults == {"Ok", "Unknown"}

WorkerFinish(i, ts) ==
  /\ Dispatched
  /\ i \in DOMAIN tasks
  /\ tasks[i].task = "running"
  /\ tasks' = [tasks EXCEPT ![i] =
       Completed(@, ts, WorkerOutput(build, request.files[i], @.language, ts))]
  /\ body' = BytesDropSlice(body, i)
  /\ UNCHANGED <<slice_vars, handler_vars, thread_vars, span_vars, build, state, previous, request, phase, timeout, timeout_flag,
                 outcomes, harvest_order, response>>

\* A polling point of the highlighter: it loads the flag, finds it nonzero
\* and returns ts::Error::Cancelled.
WorkerPollCancel(i) ==
  /\ Dispatched
  /\ i \in DOMAIN tasks
  /\ tasks[i].task = "running"
  /\ timeout_flag # 0
  /\ tasks' = [tasks EXCEPT ![i] =
       Completed(@, "Cancelled",
                 WorkerOutput(build, request.files[i], @.language, "Cancelled"))]
  /\ body' = BytesDropSlice(body, i)
  /\ UNCHANGED <<slice_vars, handler_vars, thread_vars, span_vars, build, state, previous, request, phase, timeout, timeout_flag,
                 outcomes, harvest_order, response>>

\* The closure panics: the JoinHandle resolves to a JoinError (not cancelled).
WorkerPanic(i) ==
  /\ Dispatched
  /\ i \in DOMAIN tasks
  /\ tasks[i].task = "running"
  /\ tasks' = [tasks EXCEPT ![i].task = "panicked"]
  /\ body' = BytesDropSlice(body, i)
  /\ UNCHANGED <<slice_vars, handler_vars, thread_vars, span_vars, build, state, previous, request, phase, timeout, timeout_flag,
                 outcomes, harvest_order, response>>

\* The runtime drops the task before it ran: JoinError with is_cancelled().
WorkerCancelled(i) ==
  /\ phase = "collecting"
  /\ i \in DOMAIN tasks
  /\ tasks[i].task = "queued"
  /\ ~tasks[i].harvested
  /\ tasks' = [tasks EXCEPT ![i].task = "cancelled"]
  /\ body' = BytesDropSlice(body, i)
  /\ UNCHANGED <<slice_vars, handler_vars, thread_vars, span_vars, build, state, previous, request, phase, timeout, timeout_flag,
                 outcomes, harvest_order, response>>

\* The deadline of tokio::time::timeout passes.
TimerElapse(i) ==
  /\ phase = "collecting"
  /\ i \in DOMAIN tasks
  /\ tasks[i].timer = "armed"
  /\ ~tasks[i].harvested
  /\ tasks' = [tasks EXCEPT ![i].timer = "elapsed"]
  /\ UNCHANGED <<slice_vars, handler_vars, thread_vars, span_vars, body, build, state, previous, request, phase, timeout, timeout_flag,
                 outcomes, harvest_order, response>>

\* Poll of one future of the stream.  Timeout polls the inner future first
\* and the deadline second.
TaskReady(t) == t.task \in {"finished", "panicked", "cancelled"}

\* Variant: the future waits for the join although the deadline elapsed.
FutureReady_Joined(t) == t.kind = "ready" \/ TaskReady(t)

FutureReady(t) ==
  \/ t.kind = "ready"
  \/ TaskReady(t)
  \/ t.timer = "elapsed"

\* TRUE when the poll takes the Elapsed branch.
PollElapsed(t) == t.kind = "timeout" /\ ~TaskReady(t) /\ t.timer = "elapsed"

\* Variant: the deadline is looked at before the inner future.
PollOutput_DeadlineFirst(b, file, t) ==
  IF t.kind = "ready" THEN t.ready
  ELSE IF t.timer = "elapsed" THEN ElapsedOutput(b, file, t.language)
  ELSE IF t.task = "finished" THEN t.result
  ELSE JoinErrorOutput(b, file, t.language, t.task = "cancelled")

PollOutput(b, file, t) ==
  IF t.kind = "ready" THEN t.ready
  ELSE IF t.task = "finished" THEN t.result
  ELSE IF t.task \in {"panicked", "cancelled"}
  THEN JoinErrorOutput(b, file, t.language, t.task = "cancelled")
  ELSE ElapsedOutput(b, file, t.language)

\* Variant: the Elapsed branch makes no store.
FlagAfterPoll_NoStore(flag, t) == flag

\* Variant: a store also when the join failed or the file was pre-resolved.
FlagAfterPoll_AnyFailure(flag, t) ==
  IF t.task # "finished" THEN 1 ELSE flag

\* Variant: the Elapsed branch flips the counter.
FlagAfterPoll_Toggle(flag, t) == IF PollElapsed(t) THEN 1 - flag ELSE flag

\* The store made by the Elapsed branch.
FlagAfterPoll(flag, t) == IF PollElapsed(t) THEN 1 ELSE flag

\* The future leaves the stream once it yielded: its Sleep and its
\* JoinHandle are dropped with it.
\* Variant: a future that yielded its output stays in the set.
Harvested_Pending(t) == t

Harvested(t) ==
  [t EXCEPT !.harvested = TRUE,
            !.timer = IF t.timer = "none" THEN "none" ELSE "dropped"]

\* Variant: the response is built as soon as one output was collected.
Poll_FirstOutput(i) ==
  /\ phase = "collecting"
  /\ i \in DOMAIN tasks
  /\ ~tasks[i].harvested
  /\ FutureReady(tasks[i])
  /\ timeout_flag' = FlagAfterPoll(timeout_flag, tasks[i])
  /\ tasks' = [tasks EXCEPT ![i] = Harvested(@)]
  /\ outcomes' = Append(outcomes, PollOutput(build, request.files[i], tasks[i]))
  /\ harvest_order' = Append(harvest_order, i)
  /\ phase' = "responded"
  /\ response' = build_response(build, outcomes')
  /\ body' = BytesDropHandler(body)
  /\ UNCHANGED <<slice_vars, handler_vars, thread_vars, span_vars, build, state, previous, request, timeout>>

Poll(i) ==
  /\ phase = "collecting"
  /\ i \in DOMAIN tasks
  /\ ~tasks[i].harvested
  /\ FutureReady(tasks[i])
  /\ timeout_flag' = FlagAfterPoll(timeout_flag, tasks[i])
  /\ tasks' = [tasks EXCEPT ![i] = Harvested(@)]
  /\ outcomes' = Append(outcomes, PollOutput(build, request.files[i], tasks[i]))
  /\ harvest_order' = Append(harvest_order, i)
  /\ IF \A j \in DOMAIN tasks : j # i => tasks[j].harvested
     THEN /\ phase' = "responded"
          /\ response' = build_response(build, outcomes')
          /\ body' = BytesDropHandler(body)
     ELSE UNCHANGED <<phase, response, body>>
  /\ UNCHANGED <<slice_vars, handler_vars, thread_vars, span_vars, build, state, previous, request, timeout>>

\* The client, having read the response, submits the same bytes again; the
\* handler's locals of the first call are gone.
Resubmit ==
  /\ phase = "responded"
  /\ previous = NoResponse
  /\ request \in ResubmitRequests
  /\ previous' = response
  /\ phase' = "received"
  /\ timeout' = 0
  /\ tasks' = <<>>
  /\ outcomes' = <<>>
  /\ harvest_order' = <<>>
  /\ response' = NoResponse
  /\ body' = BytesNew
  /\ UNCHANGED <<slice_vars, handler_vars, thread_vars, span_vars, build, state, request, timeout_flag>>

Next ==
  \/ \E req \in Requests : Receive(req)
  \/ html_handler_start
  \/ \E i \in 1..MaxFiles : WorkerStart(i)
  \/ \E i \in 1..MaxFiles, ts \in TsResults : WorkerFinish(i, ts)
  \/ \E i \in 1..MaxFiles : WorkerPollCancel(i)
  \/ \E i \in 1..MaxFiles : WorkerPanic(i)
  \/ \E i \in 1..MaxFiles : WorkerCancelled(i)
  \/ \E i \in 1..MaxFiles : TimerElapse(i)
  \/ \E i \in 1..MaxFiles : Poll(i)
  \/ Resubmit

Spec == Init /\ [][Next]_vars

\* ------------------------------------------- processors/spans.rs: one file
\* The items the highlight iterator yields over contents of SpanContentsLen
\* bytes: Source ranges are non-empty and inside the contents, Highlight
\* indices are positions of the configured ALL_HIGHLIGHT_NAMES; an item may
\* also be an Err.
HighlightIndices == {0, HIGHLIGHT_NAMES_LEN - 1}

HighlightEvents ==
  {e \in [kind : {"Source"}, index : {0}, start : 0..SpanContentsLen,
          end : 0..SpanContentsLen] : e.start < e.end}
  \cup {[kind |-> "HighlightStart", index |-> i, start |-> 0, end |-> 0] :
          i \in HighlightIndices}
  \cup {[kind |-> "HighlightEnd", index |-> 0, start |-> 0, end |-> 0],
        [kind |-> "Error", index |-> 0, start |-> 0, end |-> 0]}

EventStreams == UNION {[1..n -> HighlightEvents] : n \in 0..MaxEvents}

\* Variant: the triple is pushed as (index, end, start).
SpansStep_Swapped(evt, active, acc) ==
  IF evt.kind = "Error" THEN [active_index |-> active, spans |-> acc]
  ELSE IF evt.kind = "Source" /\ active # <<>>
  THEN [active_index |-> active,
        spans |-> Append(acc, <<active[1], evt.end, evt.start>>)]
  ELSE IF evt.kind = "HighlightStart" /\ active = <<>>
  THEN [active_index |-> <<evt.index>>, spans |-> acc]
  ELSE IF evt.kind = "HighlightEnd" /\ active = <<>>
  THEN [active_index |-> <<>>, spans |-> acc]
  ELSE [active_index |-> active, spans |-> acc]

\* One iteration of the for loop of process: `if let Ok(evt)` and the match
\* on (evt, active_index).
SpansStep(evt, active, acc) ==
  IF evt.kind = "Error" THEN [active_index |-> active, spans |-> acc]
  ELSE IF evt.kind = "Source" /\ active # <<>>
  THEN [active_index |-> active,
        spans |-> Append(acc, <<active[1], evt.start, evt.end>>)]
  ELSE IF evt.kind = "HighlightStart" /\ active = <<>>
  THEN [active_index |-> <<evt.index>>, spans |-> acc]
  ELSE IF evt.kind = "HighlightEnd" /\ active = <<>>
  THEN [active_index |-> <<>>, spans |-> acc]
  ELSE [active_index |-> active, spans |-> acc]

\* SpanArgs of build_response: index as u16, start and end as u64 (the
\* identity on usize).
SpanArgs(triple) ==
  [index |-> triple[1] % 65536, start |-> triple[2], end |-> triple[3]]

InitSpans ==
  /\ build = "lib"
  /\ state = [default_per_file_timeout |-> DEFAULT_PER_FILE_TIMEOUT_MS,
              max_per_file_timeout |-> MAX_PER_FILE_TIMEOUT_MS]
  /\ request = NoRequest
  /\ phase = "listening"
  /\ timeout = 0
  /\ timeout_flag = 0
  /\ tasks = <<>>
  /\ outcomes = <<>>
  /\ harvest_order = <<>>
  /\ response = NoResponse
  /\ previous = NoResponse
  /\ body = NoBody
  /\ threads = [t \in Threads |-> IdleThread]
  /\ jobs_started = 0
  /\ handlers = [h \in Handlers |-> IdleHandler]
  /\ arcs = <<>>
  /\ layout = NoLayout
  /\ views = <<>>
  /\ iter_res \in {"Ok", "Cancelled", "Unknown"}
  /\ span_outcome = NoOutcome
  /\ events \in EventStreams
  /\ iter_res # "Ok" => events = <<>>
  /\ cursor = 0
  /\ active_index = <<>>
  /\ spans = <<>>
  /\ span_phase = "processing"
  /\ spans_document = <<>>

request_vars == <<build, state, request, phase, timeout, timeout_flag, tasks,
                  outcomes, harvest_order, response, previous, body>>

\* The file the Spans worker was given: ident, filename and resolved language.
SpanFile ==
  [ident |-> 1, filename |-> <<"t", ".", "c">>, language |-> "C",
   contents |-> [present |-> TRUE, len |-> SpanContentsLen]]

\* Outcome::failure(ident, filename, None, e.into()): highlight failed before
\* it returned an iterator.
SpansStartFailure ==
  /\ span_phase = "processing"
  /\ iter_res # "Ok"
  /\ span_phase' = "failure"
  /\ span_outcome' = Failure(SpanFile.ident, SpanFile.filename, "None",
                             NonFatalError_from_ts(iter_res))
  /\ UNCHANGED <<iter_res, events, cursor, active_index, spans,
                 spans_document, request_vars, thread_vars, handler_vars, slice_vars>>

\* The for loop takes the next item of the iterator.
SpansProcessEvent ==
  /\ span_phase = "processing"
  /\ iter_res = "Ok"
  /\ cursor < Len(events)
  /\ cursor' = cursor + 1
  /\ active_index' = SpansStep(events[cursor + 1], active_index, spans).active_index
  /\ spans' = SpansStep(events[cursor + 1], active_index, spans).spans
  /\ UNCHANGED <<iter_res, span_outcome, events, span_phase, spans_document,
                 request_vars, thread_vars, handler_vars, slice_vars>>

\* The iterator is exhausted: process returns Outcome::Success{contents: spans}.
SpansProcessReturn ==
  /\ span_phase = "processing"
  /\ iter_res = "Ok"
  /\ cursor = Len(events)
  /\ span_phase' = "success"
  /\ span_outcome' = Success(SpanFile.ident, SpanFile.filename,
                             SpanFile.language, spans)
  /\ UNCHANGED <<iter_res, events, cursor, active_index, spans,
                 spans_document, request_vars, thread_vars, handler_vars, slice_vars>>

\* SpansProcessor::build_response writes the Span tables of the document.
SpansBuildResponse ==
  /\ span_phase \in {"success", "failure"}
  /\ span_phase' = "responded"
  /\ spans_document' =
       IF span_outcome.variant = "Success"
       THEN [k \in 1..Len(span_outcome.lines) |-> SpanArgs(span_outcome.lines[k])]
       ELSE <<>>
  /\ UNCHANGED <<iter_res, span_outcome, events, cursor, active_index, spans,
                 request_vars, thread_vars, handler_vars, slice_vars>>

NextSpans ==
  \/ SpansStartFailure
  \/ SpansProcessEvent
  \/ SpansProcessReturn
  \/ SpansBuildResponse

SpecSpans == InitSpans /\ [][NextSpans]_vars

\* The server built from lib/ alone.
InitLib == Init /\ build = "lib"
SpecLib == InitLib /\ [][Next]_vars

\* The lib server under the runtime's scheduling: the handler's task is run
\* when it is runnable (after the request arrived, and whenever one of its
\* futures is ready) and the timer driver fires every armed deadline.
\* Nothing is assumed of the blocking pool: a worker may stay queued or
\* running for ever.
Fairness ==
  /\ WF_vars(html_handler_start)
  /\ \A i \in 1..MaxFiles : WF_vars(TimerElapse(i))
  /\ \A i \in 1..MaxFiles : WF_vars(Poll(i))

SpecLibFair == InitLib /\ [][Next]_vars /\ Fairness

\* ============================================ the timeout check's edges
\* The handler given deadlines on both sides of the configured maximum, by
\* a server whose default is below, at, or above its maximum.
BoundaryConfigs ==
  [default_per_file_timeout :
     {DEFAULT_PER_FILE_TIMEOUT_MS, MAX_PER_FILE_TIMEOUT_MS, TOO_LARGE_TIMEOUT_MS},
   max_per_file_timeout : {MAX_PER_FILE_TIMEOUT_MS}]

BoundaryTimeouts ==
  {0, 1, MAX_PER_FILE_TIMEOUT_MS - 1, MAX_PER_FILE_TIMEOUT_MS,
   MAX_PER_FILE_TIMEOUT_MS + 1}

\* No file, or one file without contents.
BoundaryRequests ==
  [decodes : BOOLEAN, timeout_ms : BoundaryTimeouts,
   files : {<<>>,
            <<[ident |-> 0, filename |-> <<"t", ".", "c">>, language |-> "C",
               contents |-> Missing]>>}]

InitBoundary ==
  /\ build \in Builds
  /\ state \in BoundaryConfigs
  /\ request = NoRequest
  /\ phase = "listening"
  /\ timeout = 0
  /\ timeout_flag = 0
  /\ tasks = <<>>
  /\ outcomes = <<>>
  /\ harvest_order = <<>>
  /\ response = NoResponse
  /\ previous = NoResponse
  /\ body = NoBody
  /\ threads = [t \in Threads |-> IdleThread]
  /\ jobs_started = 0
  /\ handlers = [h \in Handlers |-> IdleHandler]
  /\ arcs = <<>>
  /\ layout = NoLayout
  /\ views = <<>>
  /\ iter_res = "Ok"
  /\ span_outcome = NoOutcome
  /\ events = <<>>
  /\ cursor = 0
  /\ active_index = <<>>
  /\ spans = <<>>
  /\ span_phase = "idle"
  /\ spans_document = <<>>

NextBoundary ==
  \/ \E req \in BoundaryRequests : Receive(req)
  \/ html_handler_start
  \/ \E i \in 1..MaxFiles : Poll(i)

SpecBoundary == InitBoundary /\ [][NextBoundary]_vars

\* ==================================================== content slicing
\* prepare_file_contents / the src handler's closure on the files of one
\* decoded buffer, each file passing the checks (contents of 1 byte or more).
MaxBodyLen == 6

\* Where the allocator put the buffer.
BodyAddresses == {16, 64}

\* The bytes of a buffer of n bytes; neighbouring bytes differ.
BodyBytes(n) == [p \in 1..n |-> (p * 7) % 256]

\* The contents vector of a file as the verifier admits it: a non-empty
\* range of the buffer.  start counts from the first byte of the buffer.
ContentVectors(n) ==
  {v \in [start : 0..(n - 1), len : 1..n] : v.start + v.len <= n}

\* Decoded buffers: one or two files whose contents vectors lie anywhere in
\* the buffer; two File tables may refer to the same bytes.
Layouts ==
  UNION {[base : BodyAddresses, bytes : {BodyBytes(n)},
          vectors : UNION {[1..k -> ContentVectors(n)] : k \in 1..MaxFiles}] :
           n \in 1..MaxBodyLen}

\* file.contents().unwrap().bytes(): a borrowed slice into the buffer.
ContentsPtr(l, v) == l.base + v.start

ContentsBytes(l, v) == SubSeq(l.bytes, v.start + 1, v.start + v.len)

\* Variant: the address of the slice is taken for its offset.
SliceOffset_Address(slice_ptr, body_ptr) == slice_ptr

\* slice.as_ptr() as usize - body.as_ptr() as usize
SliceOffset(slice_ptr, body_ptr) == slice_ptr - body_ptr

\* Bytes::slice(begin..end): panics unless begin <= end <= len.
BytesSliceRange(bytes, begin, end) ==
  IF begin <= end /\ end <= Len(bytes)
  THEN [panicked |-> FALSE, offset |-> begin, len |-> end - begin,
        bytes |-> SubSeq(bytes, begin + 1, end)]
  ELSE [panicked |-> TRUE, offset |-> begin, len |-> 0, bytes |-> <<>>]

\* let contents = body.slice(offset..offset + slice.len());
ContentView(l, v) ==
  LET offset == SliceOffset(ContentsPtr(l, v), l.base)
  IN BytesSliceRange(l.bytes, offset, offset + v.len)

InitSlice ==
  /\ build \in Builds
  /\ state = [default_per_file_timeout |-> DEFAULT_PER_FILE_TIMEOUT_MS,
              max_per_file_timeout |-> MAX_PER_FILE_TIMEOUT_MS]
  /\ request = NoRequest
  /\ phase = "listening"
  /\ timeout = 0
  /\ timeout_flag = 0
  /\ tasks = <<>>
  /\ outcomes = <<>>
  /\ harvest_order = <<>>
  /\ response = NoResponse
  /\ previous = NoResponse
  /\ body = NoBody
  /\ threads = [t \in Threads |-> IdleThread]
  /\ jobs_started = 0
  /\ handlers = [h \in Handlers |-> IdleHandler]
  /\ arcs = <<>>
  /\ layout \in Layouts
  /\ views = <<>>
  /\ iter_res = "Ok"
  /\ span_outcome = NoOutcome
  /\ events = <<>>
  /\ cursor = 0
  /\ active_index = <<>>
  /\ spans = <<>>
  /\ span_phase = "idle"
  /\ spans_document = <<>>

\* The closure over the files reaches the next file and makes its view.
PrepareContents ==
  /\ Len(views) < Len(layout.vectors)
  /\ views' = Append(views, ContentView(layout, layout.vectors[Len(views) + 1]))
  /\ UNCHANGED <<layout, request_vars, span_vars, thread_vars, handler_vars>>

NextSlice == PrepareContents

SpecSlice == InitSlice /\ [][NextSlice]_vars

\* ================================================ two requests at once
\* lib/server.rs html_handler called for two requests whose lifetimes
\* overlap; every file passes the pre-scheduling checks.
MaxConcurrentFiles == 1

ConcurrentFile(i) ==
  [ident |-> i - 1, filename |-> <<"t", ".", "c">>, language |-> "C",
   contents |-> [present |-> TRUE, len |-> SmallLen]]

\* Variant: the handler takes a counter that lives in the process.
ArcDefault_Static(heap) == 1

\* Arc::default(): a new allocation.
ArcDefault(heap) == Len(heap) + 1

\* The counter the tasks of handler h hold clones of.
FlagOf(h) == arcs[handlers[h].timeout_flag]

HandlerReceive(h, n) ==
  /\ handlers[h].phase = "listening"
  /\ handlers' = [handlers EXCEPT ![h] =
       [@ EXCEPT !.phase = "received",
                 !.files = [i \in 1..n |-> ConcurrentFile(i)]]]
  /\ UNCHANGED <<arcs, request_vars, span_vars, thread_vars, slice_vars>>

\* From the entry to the first await: the counter is created and one future
\* per file is pushed on the stream.
HandlerStart(h) ==
  /\ handlers[h].phase = "received"
  /\ LET id == ArcDefault(arcs) IN
       /\ arcs' = IF id > Len(arcs) THEN Append(arcs, 0) ELSE arcs
       /\ handlers' = [handlers EXCEPT ![h] =
            [@ EXCEPT !.phase = "collecting",
                      !.timeout_flag = id,
                      !.tasks = [i \in 1..Len(handlers[h].files) |->
                                   lib_future(handlers[h].files[i])]]]
  /\ UNCHANGED <<request_vars, span_vars, thread_vars, slice_vars>>

HandlerWorkerStart(h, i) ==
  /\ i \in DOMAIN handlers[h].tasks
  /\ handlers[h].tasks[i].task = "queued"
  /\ handlers' = [handlers EXCEPT ![h].tasks[i].task = "running"]
  /\ UNCHANGED <<arcs, request_vars, span_vars, thread_vars, slice_vars>>

HandlerWorkerFinish(h, i, ts) ==
  /\ i \in DOMAIN handlers[h].tasks
  /\ handlers[h].tasks[i].task = "running"
  /\ handlers' = [handlers EXCEPT ![h].tasks[i] =
       Completed(@, ts, highlight(handlers[h].files[i], @.language, ts))]
  /\ UNCHANGED <<arcs, request_vars, span_vars, thread_vars, slice_vars>>

\* The highlighter loads the counter it was given and finds it nonzero.
HandlerWorkerPollCancel(h, i) ==
  /\ i \in DOMAIN handlers[h].tasks
  /\ handlers[h].tasks[i].task = "running"
  /\ FlagOf(h) # 0
  /\ handlers' = [handlers EXCEPT ![h].tasks[i] =
       Completed(@, "Cancelled",
                 highlight(handlers[h].files[i], @.language, "Cancelled"))]
  /\ UNCHANGED <<arcs, request_vars, span_vars, thread_vars, slice_vars>>

HandlerTimerElapse(h, i) ==
  /\ handlers[h].phase = "collecting"
  /\ i \in DOMAIN handlers[h].tasks
  /\ handlers[h].tasks[i].timer = "armed"
  /\ ~handlers[h].tasks[i].harvested
  /\ handlers' = [handlers EXCEPT ![h].tasks[i].timer = "elapsed"]
  /\ UNCHANGED <<arcs, request_vars, span_vars, thread_vars, slice_vars>>

\* The poll of one future of h: the Elapsed branch stores to the counter
\* the closure cloned from h's timeout_flag.
HandlerPoll(h, i) ==
  /\ handlers[h].phase = "collecting"
  /\ i \in DOMAIN handlers[h].tasks
  /\ ~handlers[h].tasks[i].harvested
  /\ FutureReady(handlers[h].tasks[i])
  /\ arcs' = [arcs EXCEPT ![handlers[h].timeout_flag] =
                FlagAfterPoll(@, handlers[h].tasks[i])]
  /\ handlers' = [handlers EXCEPT ![h] =
       [@ EXCEPT !.tasks[i] = Harvested(@),
                 !.outcomes = Append(@, PollOutput("lib", handlers[h].files[i],
                                                   handlers[h].tasks[i])),
                 !.harvest_order = Append(@, i),
                 !.phase = IF \A j \in DOMAIN handlers[h].tasks :
                                 j # i => handlers[h].tasks[j].harvested
                            THEN "responded" ELSE "collecting"]]
  /\ UNCHANGED <<request_vars, span_vars, thread_vars, slice_vars>>

NextConcurrent ==
  \/ \E h \in Handlers, n \in 1..MaxConcurrentFiles : HandlerReceive(h, n)
  \/ \E h \in Handlers : HandlerStart(h)
  \/ \E h \in Handlers, i \in 1..MaxConcurrentFiles : HandlerWorkerStart(h, i)
  \/ \E h \in Handlers, i \in 1..MaxConcurrentFiles, ts \in TsResults :
       HandlerWorkerFinish(h, i, ts)
  \/ \E h \in Handlers, i \in 1..MaxConcurrentFiles : HandlerWorkerPollCancel(h, i)
  \/ \E h \in Handlers, i \in 1..MaxConcurrentFiles : HandlerTimerElapse(h, i)
  \/ \E h \in Handlers, i \in 1..MaxConcurrentFiles : HandlerPoll(h, i)

SpecConcurrent == InitLib /\ [][NextConcurrent]_vars

\* ============================================== thread_locals.rs at work
\* The jobs of the blocking pool and of the runtime's threads, each run
\* synchronously on one thread: HtmlProcessor::process, lib/server.rs
\* highlight, HtmlProcessor::build_response.
MaxJobs == 3

ThreadFiles ==
  {[language |-> "C", len |-> 1], [language |-> "Bash", len |-> SmallLen]}

JobLines(job) == RenderLines(job.language, [len |-> job.len])

\* RefCell::borrow_mut at the entry of with_borrow_mut: a second mutable
\* borrow of the same cell on the thread panics.
with_borrow_mut(th, cell) ==
  IF cell \in th.borrowed
  THEN [th EXCEPT !.borrow_error = TRUE]
  ELSE [th EXCEPT !.borrowed = @ \cup {cell}]

\* Variant: the RefMut is kept after the accessor's closure returned.
BorrowEnd_Leak(borrowed, cells) == borrowed

\* The RefMut is dropped when the closure returns or unwinds.
BorrowEnd(borrowed, cells) == borrowed \ cells

\* Variant: the value is reused as the last job left it.
Reset_Keep(buffer) == buffer

\* HtmlRenderer::reset, FlatBufferBuilder::reset.
Reset(buffer) == <<>>

\* HtmlRenderer::render appends to what the renderer holds; k lines are
\* written before it returns.
Render(buffer, lines, k) == buffer \o SubSeq(lines, 1, k)

HighlighterCell(kind) == IF kind = "process" THEN "HIGHLIGHTER" ELSE "PER_THREAD"

RendererCell(kind) == IF kind = "process" THEN "HTML_RENDERER" ELSE "PER_THREAD"

JobEnd(th, cells, ok, payload) ==
  [th EXCEPT !.job = NoJob, !.pc = "idle",
             !.borrowed = BorrowEnd(@, cells),
             !.ran = @ \cup {th.job.kind},
             !.returned = [kind |-> th.job.kind, ok |-> ok, payload |-> payload,
                           language |-> th.job.language, len |-> th.job.len]]

\* spawn_blocking hands a file to an idle thread; the handler's task reaches
\* build_response on the thread that polls it.
JobStart(t, kind, f) ==
  /\ jobs_started < MaxJobs
  /\ threads[t].pc = "idle"
  /\ ~threads[t].borrow_error
  /\ jobs_started' = jobs_started + 1
  /\ threads' = [threads EXCEPT ![t] =
       [@ EXCEPT !.job = [kind |-> kind, language |-> f.language, len |-> f.len],
                 !.pc = "start"]]
  /\ UNCHANGED <<slice_vars, handler_vars, request_vars, span_vars>>

\* highlight_with_tree_sitter(|highlighter| ..) / ThreadState::with(|pt| ..)
EnterHighlighter(t) ==
  /\ threads[t].pc = "start"
  /\ threads[t].job.kind \in {"process", "highlight"}
  /\ threads' = [threads EXCEPT ![t] =
       LET th == with_borrow_mut(@, HighlighterCell(@.job.kind))
       IN IF th.borrow_error THEN [th EXCEPT !.job = NoJob, !.pc = "idle"]
          ELSE [th EXCEPT !.pc = "highlight"]]
  /\ UNCHANGED <<slice_vars, handler_vars, request_vars, span_vars, jobs_started>>

\* highlighter.highlight(..)?: an error leaves the closure at once.
HighlighterHighlight(t, res) ==
  /\ threads[t].pc = "highlight"
  /\ threads' = [threads EXCEPT ![t] =
       IF res = "Ok" THEN [@ EXCEPT !.pc = "enter_renderer"]
       ELSE JobEnd(@, {HighlighterCell(@.job.kind)}, FALSE, <<>>)]
  /\ UNCHANGED <<slice_vars, handler_vars, request_vars, span_vars, jobs_started>>

\* process: render_with_tree_sitter(|renderer| { renderer.reset(); ..
\* highlight: pt.renderer.reset(), the renderer being part of PER_THREAD.
EnterRenderer(t) ==
  /\ threads[t].pc = "enter_renderer"
  /\ threads' = [threads EXCEPT ![t] =
       LET cell == RendererCell(@.job.kind)
           th == IF @.job.kind = "process" THEN with_borrow_mut(@, cell) ELSE @
       IN IF th.borrow_error THEN [th EXCEPT !.job = NoJob, !.pc = "idle"]
          ELSE [th EXCEPT !.pc = "render",
                          !.buffers[cell] = Reset(@)]]
  /\ UNCHANGED <<slice_vars, handler_vars, request_vars, span_vars, jobs_started>>

RenderResults == {"Ok", "Cancelled", "Unknown", "panic"}

\* renderer.render(iter, ..)?; Ok(renderer.lines().collect())
RendererRender(t, k, res) ==
  /\ threads[t].pc = "render"
  /\ k \in 0..Len(JobLines(threads[t].job))
  /\ res = "Ok" => k = Len(JobLines(threads[t].job))
  /\ threads' = [threads EXCEPT ![t] =
       LET cell == RendererCell(@.job.kind)
           buf == Render(@.buffers[cell], JobLines(@.job), k)
           done == JobEnd(@, {HighlighterCell(@.job.kind), cell},
                          res = "Ok", IF res = "Ok" THEN buf ELSE <<>>)
       IN [done EXCEPT !.buffers[cell] = buf,
                       !.partial = IF res # "Ok" /\ k > 0
                                   THEN @ \cup {cell} ELSE @]]
  /\ UNCHANGED <<slice_vars, handler_vars, request_vars, span_vars, jobs_started>>

\* build_flatbuffers(|builder| { builder.reset(); ..
EnterBuilder(t) ==
  /\ threads[t].pc = "start"
  /\ threads[t].job.kind = "build_response"
  /\ threads' = [threads EXCEPT ![t] =
       LET th == with_borrow_mut(@, "RESPONSE_BUILDER")
       IN IF th.borrow_error THEN [th EXCEPT !.job = NoJob, !.pc = "idle"]
          ELSE [th EXCEPT !.pc = "build",
                          !.buffers["RESPONSE_BUILDER"] = Reset(@)]]
  /\ UNCHANGED <<slice_vars, handler_vars, request_vars, span_vars, jobs_started>>

\* the documents are created in the builder, the response is finished and
\* its bytes are copied out.
BuilderFinish(t) ==
  /\ threads[t].pc = "build"
  /\ threads' = [threads EXCEPT ![t] =
       LET buf == @.buffers["RESPONSE_BUILDER"] \o JobLines(@.job)
       IN [JobEnd(@, {"RESPONSE_BUILDER"}, TRUE, buf)
             EXCEPT !.buffers["RESPONSE_BUILDER"] = buf]]
  /\ UNCHANGED <<slice_vars, handler_vars, request_vars, span_vars, jobs_started>>

NextThreads ==
  \/ \E t \in Threads, kind \in JobKinds, f \in ThreadFiles : JobStart(t, kind, f)
  \/ \E t \in Threads : EnterHighlighter(t)
  \/ \E t \in Threads, res \in {"Ok", "Cancelled", "Unknown"} :
       HighlighterHighlight(t, res)
  \/ \E t \in Threads : EnterRenderer(t)
  \/ \E t \in Threads, k \in 0..1, res \in RenderResults : RendererRender(t, k, res)
  \/ \E t \in Threads : EnterBuilder(t)
  \/ \E t \in Threads : BuilderFinish(t)

SpecThreads == InitLib /\ [][NextThreads]_vars


\* ================================================================== claims
\* Helpers of the statements below.
Accepted(st, req) == req.decodes /\ ~(req.timeout_ms > st.max_per_file_timeout)

\* The request decodes and its deadline (the default when timeout_ms is 0) is
\* not above the maximum.
PassesChecks(st, req) ==
  /\ req.decodes
  /\ (IF req.timeout_ms = 0 THEN st.default_per_file_timeout
      ELSE req.timeout_ms) <= st.max_per_file_timeout

HandlerEntered == phase \notin {"listening", "received"}

FileOfDoc(k) == request.files[harvest_order[k]]

CountIdent(seq, id) == Cardinality({k \in 1..Len(seq) : seq[k].ident = id})

IsTimedOut(o) ==
  \/ o.variant = "Failure" /\ o.reason = "TimedOut"
  \/ o.variant = "Owned" /\ o.error_code = "TimedOut"

\* C1: a request that decodes and passes the timeout check ends in HTTP 200
\* with exactly one document per file entry, and every ident occurs in the
\* documents as many times as in the request.
C1_IdentsPreserved ==
  (HandlerEntered /\ PassesChecks(state, request)) =>
    /\ phase \in {"collecting", "responded"}
    /\ phase = "responded" =>
         /\ response.status = 200
         /\ Len(response.documents) = Len(request.files)
         /\ \A id \in 0..MaxIdent :
              CountIdent(response.documents, id) = CountIdent(request.files, id)

\* Two files with the same ident, one ended by its deadline and one by a
\* join failure, both answered.
C1_Witness ==
  /\ phase = "responded"
  /\ Len(request.files) = 2
  /\ request.files[1].ident = request.files[2].ident
  /\ \E k \in 1..2 : outcomes[k].reason = "TimedOut"
  /\ \E k \in 1..2 : outcomes[k].reason = "ThreadError"
  /\ Len(response.documents) = 2

\* C2: when the poll of a file finds its deadline elapsed and its worker not
\* yet resolved, the same step records Failure{TimedOut} with the file's
\* ident and leaves the cancellation flag nonzero.
C2_TimeoutSetsFlag ==
  [][\A i \in DOMAIN tasks :
       ( /\ phase = "collecting"
         /\ ~tasks[i].harvested
         /\ tasks[i].timer = "elapsed"
         /\ tasks[i].task \in {"queued", "running"}
         /\ harvest_order' = Append(harvest_order, i) )
       => /\ Len(outcomes') = Len(outcomes) + 1
          /\ IsTimedOut(outcomes'[Len(outcomes')])
          /\ outcomes'[Len(outcomes')].ident = request.files[i].ident
          /\ timeout_flag' # 0]_vars

\* A file was ended by its deadline while its worker had not finished.
C2_Witness ==
  \E k \in 1..Len(outcomes) :
    /\ IsTimedOut(outcomes[k])
    /\ outcomes[k].ident = FileOfDoc(k).ident
    /\ tasks[harvest_order[k]].task = "running"
    /\ timeout_flag = 1


\* C3: a file whose worker stopped at a polling point because the flag was
\* set is answered with error code TimedOut.
C3_CancelledIsTimedOut ==
  phase = "responded" =>
    \A k \in 1..Len(response.documents) :
      tasks[harvest_order[k]].ts = "Cancelled" =>
        response.documents[k].error_code = "TimedOut"

\* C4: the error code of every document is the fixed projection of its
\* outcome: TimedOut and Cancelled to TimedOut, ThreadError and UnknownError
\* to UnknownError, InvalidLanguage to UnknownLanguage, FileTooLarge to
\* FileTooLarge, EmptyFile and every Success to NoError.
C4_ErrorCodeProjection ==
  \A k \in 1..Len(response.documents) :
    LET o == outcomes[k]
        code == response.documents[k].error_code
    IN /\ o.variant \in {"Success", "Failure"}
       /\ o.variant = "Success" => code = "NoError"
       /\ o.variant = "Failure" =>
            /\ o.reason \in {"TimedOut", "Cancelled"} => code = "TimedOut"
            /\ o.reason \in {"ThreadError", "UnknownError"} => code = "UnknownError"
            /\ o.reason = "InvalidLanguage" => code = "UnknownLanguage"
            /\ o.reason = "FileTooLarge" => code = "FileTooLarge"
            /\ o.reason = "EmptyFile" => code = "NoError"
            /\ o.reason \in {"TimedOut", "Cancelled", "ThreadError",
                             "UnknownError", "InvalidLanguage",
                             "FileTooLarge", "EmptyFile"}

\* A response answering a cancelled join and a panicked worker.
C4_Witness ==
  /\ phase = "responded"
  /\ \E k \in 1..Len(outcomes) :
       outcomes[k].reason = "Cancelled"
         /\ response.documents[k].error_code = "TimedOut"
  /\ \E k \in 1..Len(outcomes) :
       outcomes[k].reason = "ThreadError"
         /\ response.documents[k].error_code = "UnknownError"

\* C5: a file whose contents are missing or empty is answered with NoError
\* and no lines, whatever its language and filename.
C5_EmptyIsNoError ==
  phase = "responded" =>
    \A k \in 1..Len(response.documents) :
      ((~FileOfDoc(k).contents.present) \/ FileOfDoc(k).contents.len = 0) =>
        /\ response.documents[k].error_code = "NoError"
        /\ response.documents[k].lines = <<>>

\* The filename has no extension, or one the registry does not hold.
NoRegisteredExtension(name) ==
  \/ \A k \in 1..Len(name) : name[k] # "."
  \/ name \in { <<"x", ".", "u", "n", "k">> }

\* C6: a file with language Unspecified and no registered extension does not
\* stop the request (HTTP 200) and is answered with UnknownLanguage.
C6_UnknownExtension ==
  \A i \in 1..Len(request.files) :
    ( /\ HandlerEntered
      /\ PassesChecks(state, request)
      /\ request.files[i].language = "Unspecified"
      /\ NoRegisteredExtension(request.files[i].filename) ) =>
      /\ phase \in {"collecting", "responded"}
      /\ phase = "responded" =>
           /\ response.status = 200
           /\ \A k \in 1..Len(response.documents) :
                harvest_order[k] = i =>
                  response.documents[k].error_code = "UnknownLanguage"

\* C7: a request that does not decode, or whose timeout_ms is above the
\* maximum, is answered 4xx with no future, worker, timer, outcome or
\* document.
C7_FatalBeforeFiles ==
  (HandlerEntered /\ ~Accepted(state, request)) =>
    /\ phase = "rejected"
    /\ response.status \in 400..499
    /\ response.documents = <<>>
    /\ tasks = <<>>
    /\ outcomes = <<>>
    /\ harvest_order = <<>>

\* The timeout of an empty request was found too large.
C7_Witness ==
  /\ phase = "rejected"
  /\ request.decodes
  /\ request.timeout_ms > state.max_per_file_timeout
  /\ request.files = <<>>
  /\ response.status = 400

\* C8: a request with timeout_ms = 0 is accepted with the default
\* as its deadline; a nonzero timeout_ms not above the maximum is the
\* deadline.
C8_ZeroMeansDefault ==
  (HandlerEntered /\ request.decodes) =>
    /\ request.timeout_ms = 0 =>
         /\ phase # "rejected"
         /\ timeout = state.default_per_file_timeout
    /\ (request.timeout_ms # 0
          /\ request.timeout_ms <= state.max_per_file_timeout) =>
         /\ phase # "rejected"
         /\ timeout = request.timeout_ms

\* C9: every document carries the ident and the filename of its file.
C9_IdentAndFilename ==
  phase = "responded" =>
    \A k \in 1..Len(response.documents) :
      /\ response.documents[k].ident = FileOfDoc(k).ident
      /\ response.documents[k].filename = FileOfDoc(k).filename

\* C10: a step in which a file fails for a reason other than its deadline (a
\* pre-resolved failure or a join failure is collected, or a worker ends
\* with an error or a panic) leaves the cancellation flag, the collected
\* outcomes and the futures of the sibling files as they were; and the
\* response answers every file with HTTP 200.
NonTimeoutReasons ==
  {"InvalidLanguage", "EmptyFile", "FileTooLarge", "UnknownError",
   "ThreadError", "Cancelled"}

C10_NonFatalFrame ==
  [][\A i \in DOMAIN tasks :
       /\ ( /\ harvest_order' = Append(harvest_order, i)
            /\ outcomes'[Len(outcomes')].variant = "Failure"
            /\ outcomes'[Len(outcomes')].reason \in NonTimeoutReasons )
          => /\ timeout_flag' = timeout_flag
             /\ SubSeq(outcomes', 1, Len(outcomes)) = outcomes
             /\ \A j \in DOMAIN tasks \ {i} : tasks'[j] = tasks[j]
             /\ phase' = "responded" =>
                  /\ response'.status = 200
                  /\ Len(response'.documents) = Len(request.files)
       /\ ( /\ tasks[i].task = "running"
            /\ i \in DOMAIN tasks'
            /\ \/ tasks'[i].task = "panicked"
               \/ tasks'[i].ts = "Unknown" )
          => /\ timeout_flag' = timeout_flag
             /\ outcomes' = outcomes
             /\ \A j \in DOMAIN tasks \ {i} : tasks'[j] = tasks[j]]_vars

\* A highlighter error of one file beside a successful sibling, the flag
\* still 0.
C10_Witness ==
  /\ phase = "responded"
  /\ Len(outcomes) = 2
  /\ \E k \in 1..2 : outcomes[k].variant = "Failure"
                       /\ outcomes[k].reason = "UnknownError"
  /\ \E k \in 1..2 : outcomes[k].variant = "Success"
  /\ response.documents[1].error_code # response.documents[2].error_code
  /\ timeout_flag = 0

\* C11: a worker whose panic is collected from its join handle turns the
\* whole request into a 5xx response, not a document of an HTTP 200.
C11_WorkerPanicIs5xx ==
  phase = "responded" =>
    \A k \in 1..Len(outcomes) :
      ( /\ tasks[harvest_order[k]].task = "panicked"
        /\ ~IsTimedOut(outcomes[k]) ) =>
        /\ response.status \in 500..599
        /\ response.documents = <<>>

\* The language a file's future was built with.
ResolvedOf(t) == IF t.kind = "timeout" THEN t.language ELSE t.ready.language

InvalidLanguageFuture(t) ==
  /\ t.kind = "ready"
  /\ t.ready.variant = "Failure"
  /\ t.ready.reason = "InvalidLanguage"

\* C12: a declared tag decides the language alone (a registered tag is the
\* language whatever the filename, an unregistered tag is InvalidLanguage);
\* with the tag Unspecified the extension decides (t.c is C, no extension
\* or an unregistered one is InvalidLanguage); and t.c with the tag
\* Unspecified, once highlighted, is answered NoError with language C.
C12_TagFirst ==
  phase \in {"collecting", "responded"} =>
    \A i \in DOMAIN tasks :
      LET f == request.files[i]
          t == tasks[i]
      IN /\ f.language \in {"C", "Bash"} =>
              ResolvedOf(t) = f.language /\ ~InvalidLanguageFuture(t)
         /\ f.language \notin {"Unspecified", "C", "Bash"} =>
              InvalidLanguageFuture(t)
         /\ (f.language = "Unspecified" /\ f.filename = <<"t", ".", "c">>) =>
              ResolvedOf(t) = "C" /\ ~InvalidLanguageFuture(t)
         /\ ( /\ f.language = "Unspecified"
              /\ f.filename \in {<<"x", ".", "u", "n", "k">>, <<"R", "E">>} ) =>
              InvalidLanguageFuture(t)
         /\ ( /\ f.language = "Unspecified"
              /\ f.filename = <<"t", ".", "c">>
              /\ f.contents.len \in 1..MAX_FILE_SIZE ) =>
              /\ t.kind = "timeout"
              /\ \A k \in 1..Len(response.documents) :
                   (harvest_order[k] = i /\ t.ts = "Ok"
                      /\ outcomes[k].variant = "Success") =>
                     /\ response.documents[k].error_code = "NoError"
                     /\ response.documents[k].language = "C"
                     /\ response.documents[k].lines # <<>>

\* t.c with the tag Unspecified was highlighted as C.
C12_Witness ==
  /\ phase = "responded"
  /\ Len(request.files) = 1
  /\ request.files[1].language = "Unspecified"
  /\ request.files[1].filename = <<"t", ".", "c">>
  /\ response.documents[1].language = "C"
  /\ response.documents[1].error_code = "NoError"
  /\ response.documents[1].lines # <<>>

FileTooLargeFuture(t) ==
  /\ t.kind = "ready"
  /\ t.ready.variant = "Failure"
  /\ t.ready.reason = "FileTooLarge"
  /\ t.task = "none"
  /\ t.timer = "none"

\* The declared tag is registered, or it is Unspecified and the filename's
\* extension is.
LanguageResolves(f) ==
  \/ f.language \in {"C", "Bash"}
  \/ f.language = "Unspecified" /\ f.filename = <<"t", ".", "c">>

\* C13 as stated: every file longer than 256 MiB is a pre-resolved
\* Failure{FileTooLarge} with no worker.
C13_OversizeAlways ==
  phase \in {"collecting", "responded"} =>
    \A i \in DOMAIN tasks :
      request.files[i].contents.len > 268435456 => FileTooLargeFuture(tasks[i])

\* C13 amended: a file whose language resolves and whose contents are longer
\* than 256 MiB is a pre-resolved Failure{FileTooLarge}, without worker or
\* timer, answered with code FileTooLarge; one of 1 byte to exactly 256 MiB
\* is given a worker and is never answered FileTooLarge.
C13_FileTooLarge ==
  phase \in {"collecting", "responded"} =>
    \A i \in DOMAIN tasks :
      LET f == request.files[i] IN
      LanguageResolves(f) =>
        /\ f.contents.len > 268435456 =>
             /\ FileTooLargeFuture(tasks[i])
             /\ \A k \in 1..Len(response.documents) :
                  harvest_order[k] = i =>
                    response.documents[k].error_code = "FileTooLarge"
        /\ f.contents.len \in 1..268435456 =>
             /\ tasks[i].kind = "timeout"
             /\ \A k \in 1..Len(response.documents) :
                  harvest_order[k] = i =>
                    response.documents[k].error_code # "FileTooLarge"

\* An oversize file of a registered language was answered FileTooLarge.
C13_Witness ==
  /\ phase = "responded"
  /\ Len(request.files) = 1
  /\ request.files[1].contents.len = 268435456 + 1
  /\ LanguageResolves(request.files[1])
  /\ FileTooLargeFuture(tasks[1])
  /\ response.documents[1].error_code = "FileTooLarge"

\* C14: a request that passes the checks and holds no file is answered
\* HTTP 200 with zero documents as soon as the handler ran; no future, worker
\* or timer exists and the flag was never set.
C14_EmptyBatch ==
  (HandlerEntered /\ PassesChecks(state, request) /\ request.files = <<>>) =>
    /\ phase = "responded"
    /\ response.status = 200
    /\ response.documents = <<>>
    /\ tasks = <<>>
    /\ outcomes = <<>>
    /\ harvest_order = <<>>
    /\ timeout_flag = 0

\* The request {files: [], timeout_ms: 0} was answered.
C14_Witness ==
  /\ phase = "responded"
  /\ request.decodes
  /\ request.files = <<>>
  /\ request.timeout_ms = 0
  /\ response = [status |-> 200, documents |-> <<>>]

\* C15: the k-th document of the response answers the k-th harvested file,
\* with that file's ident; every file is harvested once, in whatever order
\* the futures became ready.
C15_HarvestOrder ==
  /\ Len(outcomes) = Len(harvest_order)
  /\ \A k \in 1..Len(harvest_order) :
       /\ harvest_order[k] \in 1..Len(request.files)
       /\ outcomes[k].ident = FileOfDoc(k).ident
       /\ \A m \in 1..Len(harvest_order) :
            harvest_order[m] = harvest_order[k] => m = k
  /\ phase = "responded" =>
       /\ Len(response.documents) = Len(harvest_order)
       /\ \A k \in 1..Len(response.documents) :
            response.documents[k].ident = FileOfDoc(k).ident

\* The second file of the request finished and was harvested while the
\* worker of the first was still running; its document comes first and the
\* two documents carry their own idents.
C15_Witness ==
  /\ phase = "responded"
  /\ harvest_order = <<2, 1>>
  /\ request.files[1].ident # request.files[2].ident
  /\ outcomes[1].variant = "Success"
  /\ outcomes[2].variant = "Success"
  /\ response.documents[1].ident = request.files[2].ident
  /\ response.documents[2].ident = request.files[1].ident

\* The codes that depend on the request alone.
RequestCodes == {"NoError", "UnknownLanguage", "FileTooLarge"}

\* The k-th outcome was made by the Elapsed branch of the file's timeout.
ElapsedHarvest(k) ==
  /\ outcomes[k].variant = "Failure"
  /\ outcomes[k].reason = "TimedOut"
  /\ tasks[harvest_order[k]].result = NoOutcome

C17_FailureOmitsLines ==
  phase = "responded" =>
    \A k \in 1..Len(response.documents) :
      /\ outcomes[k].variant = "Failure" =>
           /\ ~response.documents[k].has_lines
           /\ response.documents[k].error_code =
                NonFatalError_into_ErrorCode(outcomes[k].reason)
      /\ outcomes[k].variant = "Success" =>
           /\ response.documents[k].has_lines
           /\ response.documents[k].lines = outcomes[k].lines
           /\ response.documents[k].error_code = "NoError"

\* C18: every triple a Success holds, and every Span written from it, has
\* 0 <= start < end <= len(contents) and 0 <= index < len(highlight_names).
C18_SpanBounds ==
  /\ \A k \in 1..Len(spans) :
       /\ 0 <= spans[k][2] /\ spans[k][2] < spans[k][3]
       /\ spans[k][3] <= SpanContentsLen
       /\ 0 <= spans[k][1] /\ spans[k][1] < 26
  /\ span_phase = "responded" =>
       /\ Len(spans_document) = Len(spans)
       /\ \A k \in 1..Len(spans_document) :
            /\ 0 <= spans_document[k].start
            /\ spans_document[k].start < spans_document[k].end
            /\ spans_document[k].end <= SpanContentsLen
            /\ 0 <= spans_document[k].index /\ spans_document[k].index < 26
            /\ spans_document[k].index = spans[k][1]

\* A document with a span of the last highlight name.
C18_Witness ==
  /\ span_phase = "responded"
  /\ Len(spans_document) >= 1
  /\ spans_document[1].index = 25
  /\ spans_document[1].end = SpanContentsLen

\* The active-index machine as the statement gives it, run over the first n
\* items of the stream.
RECURSIVE ActiveIndexMachine(_)
ActiveIndexMachine(n) ==
  IF n = 0 THEN [active_index |-> <<>>, spans |-> <<>>]
  ELSE LET p == ActiveIndexMachine(n - 1)
           e == events[n]
       IN IF e.kind = "HighlightStart" /\ p.active_index = <<>>
          THEN [p EXCEPT !.active_index = <<e.index>>]
          ELSE IF e.kind = "Source" /\ p.active_index # <<>>
          THEN [p EXCEPT !.spans =
                  Append(@, <<p.active_index[1], e.start, e.end>>)]
          ELSE IF e.kind = "HighlightEnd" /\ p.active_index # <<>>
          THEN [p EXCEPT !.active_index = <<>>]
          ELSE p

\* C20: after every item the processor's active index and emitted triples
\* are those of the active-index machine: HighlightStart while inactive
\* sets the index, Source while active emits, HighlightEnd while active
\* resets the index to none, every other pairing is dropped.
C20_ActiveIndexMachine ==
  span_phase # "idle" =>
    /\ active_index = ActiveIndexMachine(cursor).active_index
    /\ spans = ActiveIndexMachine(cursor).spans

\* C19: the token of a request is 0 or 1; the only step that makes it 0 is
\* the handler creating the token of a request; every other step leaves it
\* as it was or sets it, so a token that is nonzero stays nonzero for the
\* rest of its request.
C19_TokenMonotonic ==
  [][ /\ timeout_flag \in {0, 1}
      /\ timeout_flag' \in {0, 1}
      /\ phase # "received" => timeout_flag' >= timeout_flag
      /\ (phase = "received" /\ phase' \in {"collecting", "responded"}) =>
           timeout_flag' = 0 ]_vars

\* Both files of a request were ended by their deadlines, and the token is
\* set.
C19_Witness ==
  /\ phase = "responded"
  /\ Len(outcomes) = 2
  /\ ElapsedHarvest(1)
  /\ ElapsedHarvest(2)
  /\ timeout_flag = 1

\* C21: a Spans run in which the highlighter reported an error, at its start
\* or as an item of the stream, ends as a Failure whose wire code is
\* TimedOut, never as a Success.
C21_SpansCancelledIsFailure ==
  ( /\ span_outcome # NoOutcome
    /\ \/ iter_res = "Cancelled"
       \/ \E n \in 1..Len(events) : events[n].kind = "Error" ) =>
    /\ span_outcome.variant = "Failure"
    /\ NonFatalError_into_ErrorCode(span_outcome.reason) = "TimedOut"

\* C22: the outcome collected for a worker whose join failed keeps the
\* file's ident and is Failure{Cancelled} when the task was cancelled and
\* Failure{ThreadError} otherwise, and the JoinError conversion gives the
\* same two reasons.
C22_JoinFailure ==
  \A k \in 1..Len(outcomes) :
    LET t == tasks[harvest_order[k]]
        o == outcomes[k]
    IN /\ t.task = "cancelled" =>
            /\ o.ident = FileOfDoc(k).ident
            /\ o.variant = "Failure"
            /\ o.reason = "Cancelled"
            /\ NonFatalError_from_JoinError(TRUE) = o.reason
       /\ (t.task = "panicked" /\ ~IsTimedOut(o)) =>
            /\ o.ident = FileOfDoc(k).ident
            /\ o.variant = "Failure"
            /\ o.reason = "ThreadError"
            /\ NonFatalError_from_JoinError(FALSE) = o.reason

\* The checks made before scheduling fail for the file (lib/server.rs).
DecodeFails(f) ==
  \/ ~LanguageResolves(f)
  \/ ~f.contents.present
  \/ f.contents.len = 0
  \/ f.contents.len > 268435456

C24_ResponseAfterAll ==
  /\ (phase = "responded" \/ response.status = 200) =>
       /\ Len(outcomes) = Len(request.files)
       /\ Len(response.documents) = Len(request.files)
       /\ \A i \in 1..Len(request.files) :
            /\ tasks[i].harvested
            /\ \E k \in 1..Len(harvest_order) : harvest_order[k] = i
  /\ (\E i \in DOMAIN tasks : ~tasks[i].harvested) => response = NoResponse

\* The response was built after one file was ended by its deadline and the
\* other by a join failure.
C24_Witness ==
  /\ phase = "responded"
  /\ response.status = 200
  /\ Len(response.documents) = 2
  /\ \E k \in 1..2 : IsTimedOut(outcomes[k]) /\ tasks[harvest_order[k]].result = NoOutcome
  /\ \E k \in 1..2 : tasks[harvest_order[k]].task = "panicked"
                       /\ ~IsTimedOut(outcomes[k])

\* The state of a dispatched file: by its collected outcome once it has one,
\* by its worker before.
FileState(ts, outs, order, i) ==
  IF ts[i].harvested
  THEN LET k == CHOOSE m \in 1..Len(order) : order[m] = i IN
       IF ts[i].result # NoOutcome THEN "Completed"
       ELSE IF IsTimedOut(outs[k]) THEN "TimedOut"
       ELSE "JoinFailed"
  ELSE CASE ts[i].task = "queued" -> "Queued"
         [] ts[i].task = "running" -> "Running"
         [] ts[i].task = "finished" -> "Completed"
         [] ts[i].task \in {"panicked", "cancelled"} -> "JoinFailed"

TerminalStates == {"Completed", "TimedOut", "JoinFailed"}

\* C25 as stated: a dispatched file moves only from Queued to Running and
\* from Running to Completed, TimedOut or JoinFailed.
C25_FileStateMachine ==
  [][\A i \in DOMAIN tasks \cap DOMAIN tasks' :
       tasks[i].kind = "timeout" =>
         LET a == FileState(tasks, outcomes, harvest_order, i)
             b == FileState(tasks', outcomes', harvest_order', i)
         IN \/ a = b
            \/ a = "Queued" /\ b = "Running"
            \/ a = "Running" /\ b \in TerminalStates]_vars

\* C25 amended: a dispatched file moves from Queued to Running, from Running
\* to Completed, TimedOut or JoinFailed, and from Queued to TimedOut or
\* JoinFailed; so Completed is entered only from Running, no file returns
\* to Queued and no file leaves a terminal state.
C25_FileStateMachineFromQueued ==
  [][\A i \in DOMAIN tasks \cap DOMAIN tasks' :
       tasks[i].kind = "timeout" =>
         LET a == FileState(tasks, outcomes, harvest_order, i)
             b == FileState(tasks', outcomes', harvest_order', i)
         IN \/ a = b
            \/ a = "Queued" /\ b = "Running"
            \/ a = "Running" /\ b \in TerminalStates
            \/ a = "Queued" /\ b \in {"TimedOut", "JoinFailed"}]_vars

\* A file was ended by its deadline while it was still waiting for a worker.
C25_Witness ==
  \E i \in DOMAIN tasks :
    /\ tasks[i].kind = "timeout"
    /\ tasks[i].harvested
    /\ tasks[i].task = "queued"
    /\ FileState(tasks, outcomes, harvest_order, i) = "TimedOut"

\* C26: a worker that is queued or running owns a slice of the buffer and
\* the buffer is not freed, also after its file was timed out and after the
\* handler returned; a freed buffer has no handle left: the handler has
\* returned and no worker closure is alive.
C26_BufferOutlivesSlices ==
  /\ \A i \in DOMAIN tasks :
       tasks[i].task \in {"queued", "running"} =>
         /\ i \in body.slices
         /\ ~body.released
  /\ body.released =>
       /\ ~body.handler
       /\ body.slices = {}
       /\ phase \in {"rejected", "responded", "panicked"}
       /\ \A i \in DOMAIN tasks : tasks[i].task \notin {"queued", "running"}
  /\ phase \in {"received", "collecting"} => body.handler /\ ~body.released

\* The handler has answered, its file was timed out, and the worker is
\* still running on the contents.
C26_Witness ==
  /\ phase = "responded"
  /\ ~body.handler
  /\ \E i \in DOMAIN tasks :
       /\ tasks[i].harvested
       /\ tasks[i].task = "running"
       /\ i \in body.slices
  /\ ~body.released

\* C27: on every thread no accessor is entered for a thread-local value that
\* is already mutably borrowed there; the renderer accessor nested in the
\* highlighter accessor borrows a different cell, and an idle thread holds
\* no borrow when its next job, a build_response included, starts.
C27_SingleBorrow ==
  \A t \in Threads :
    /\ ~threads[t].borrow_error
    /\ threads[t].pc \in {"idle", "start"} => threads[t].borrowed = {}
    /\ threads[t].pc = "enter_renderer" /\ threads[t].job.kind = "process" =>
         "HTML_RENDERER" \notin threads[t].borrowed

\* The nested borrow is active on a thread that ran build_response and a
\* worker job before.
C27_Witness ==
  \E t \in Threads :
    /\ threads[t].borrowed = {"HIGHLIGHTER", "HTML_RENDERER"}
    /\ "build_response" \in threads[t].ran
    /\ "process" \in threads[t].ran

\* C28: what a job returns is made of its own file only, whatever the
\* thread ran before: the lines of a successful render are the lines of the
\* job's file, and a response holds the documents of its own request.
C28_FreshStart ==
  \A t \in Threads :
    threads[t].returned.ok =>
      threads[t].returned.payload =
        RenderLines(threads[t].returned.language, [len |-> threads[t].returned.len])

\* A successful render on a thread whose renderer an earlier render left
\* part-way through, with another file's output in it.
C28_Witness ==
  \E t \in Threads :
    /\ threads[t].returned.ok
    /\ threads[t].returned.kind \in {"process", "highlight"}
    /\ RendererCell(threads[t].returned.kind) \in threads[t].partial
    /\ threads[t].pc = "idle"

\* C30: each file contributes exactly one outcome: there are as many
\* outcomes as harvested files, a recorded outcome and the response are
\* never changed afterwards, and a step of the worker of a file whose
\* outcome is recorded (its late result) changes neither.
C30_OneOutcomePerFile ==
  [][phase' \notin {"listening", "received"} =>
       /\ Len(outcomes') = Cardinality({i \in DOMAIN tasks' : tasks'[i].harvested})
       /\ \A k \in DOMAIN outcomes :
            /\ k \in DOMAIN outcomes'
            /\ outcomes'[k] = outcomes[k]
            /\ harvest_order'[k] = harvest_order[k]
       /\ response # NoResponse => response' = response
       /\ \A i \in DOMAIN tasks \cap DOMAIN tasks' :
            (tasks[i].harvested /\ tasks'[i] # tasks[i]) =>
              /\ outcomes' = outcomes
              /\ response' = response
              /\ tasks'[i].result = NoOutcome]_vars

\* The deadline of a file elapsed first, its worker finished afterwards, and
\* the response holds the one TimedOut document of the file.
C30_Witness ==
  /\ phase = "responded"
  /\ Len(response.documents) = Len(request.files)
  /\ \E k \in 1..Len(outcomes) :
       /\ IsTimedOut(outcomes[k])
       /\ tasks[harvest_order[k]].timer = "dropped"
       /\ tasks[harvest_order[k]].task = "finished"
       /\ tasks[harvest_order[k]].result = NoOutcome
       /\ response.documents[k].error_code = "TimedOut"

\* C29: every request that passes validation is answered, although no
\* worker is assumed to finish: each file is harvested when its worker
\* completes or when its deadline elapses, whichever the handler sees first.
C29_EventuallyResponds ==
  (phase = "received" /\ PassesChecks(state, request)) ~> (phase = "responded")

\* The response was sent while the worker of a timed-out file was still
\* running, and a faster file of the same request was harvested before that
\* deadline with its lines.
C29_Witness ==
  /\ phase = "responded"
  /\ Len(harvest_order) = 2
  /\ outcomes[1].variant = "Success"
  /\ IsTimedOut(outcomes[2])
  /\ tasks[harvest_order[2]].task = "running"
  /\ tasks[harvest_order[2]].result = NoOutcome

\* C31: when a file is harvested and its worker's result is available, also
\* with its deadline elapsed, the outcome is the worker's result and the
\* token is left as it was; the token changes only at the harvest of a file
\* whose outcome is the Failure{TimedOut} made by its own elapsed deadline;
\* the outcomes recorded before, a fast file's Success among them, stay.
C31_ReadyBeatsTimer ==
  [][(Len(outcomes') = Len(outcomes) + 1 /\ tasks # <<>>) =>
       LET i == harvest_order'[Len(harvest_order')]
           t == tasks[i]
           o == outcomes'[Len(outcomes')]
       IN /\ t.task = "finished" =>
               /\ o = t.result
               /\ timeout_flag' = timeout_flag
          /\ timeout_flag' # timeout_flag =>
               /\ o = Failure(request.files[i].ident, request.files[i].filename,
                              t.language, "TimedOut")
               /\ ~TaskReady(t)
               /\ t.timer = "elapsed"
          /\ \A k \in DOMAIN outcomes : outcomes'[k] = outcomes[k]]_vars

\* The fast file was harvested with its lines before the deadline of its
\* sibling set the token; its document is NoError in the response.
C31_Witness ==
  /\ phase = "responded"
  /\ timeout_flag = 1
  /\ Len(outcomes) = 2
  /\ outcomes[1].variant = "Success"
  /\ outcomes[2].variant = "Failure" /\ outcomes[2].reason = "TimedOut"
  /\ tasks[harvest_order[2]].result = NoOutcome
  /\ response.documents[1].error_code = "NoError"
  /\ response.documents[1].lines # <<>>
  /\ response.documents[2].error_code = "TimedOut"

\* C32: whenever an outcome of the request, collected or still in its
\* worker's JoinHandle, has reason TimedOut, the request's token is nonzero;
\* and while the token is 0 no highlighter of the request has returned
\* Cancelled.
C32_TimedOutImpliesToken ==
  /\ \A k \in DOMAIN outcomes :
       (outcomes[k].variant = "Failure" /\ outcomes[k].reason = "TimedOut") =>
         timeout_flag # 0
  /\ \A i \in DOMAIN tasks :
       /\ (tasks[i].result.variant = "Failure" /\ tasks[i].result.reason = "TimedOut")
            => timeout_flag # 0
       /\ tasks[i].ts = "Cancelled" => timeout_flag # 0

\* A file was reported TimedOut by its highlighter, which saw the token that
\* the elapsed deadline of another file had set.
C32_Witness ==
  \E k \in DOMAIN outcomes :
    /\ outcomes[k].variant = "Failure"
    /\ outcomes[k].reason = "TimedOut"
    /\ tasks[harvest_order[k]].ts = "Cancelled"
    /\ tasks[harvest_order[k]].result = outcomes[k]
    /\ timeout_flag = 1

\* The k-th outcome of handler h was made by the Elapsed branch.
HandlerElapsedHarvest(h, k) ==
  /\ handlers[h].outcomes[k].variant = "Failure"
  /\ handlers[h].outcomes[k].reason = "TimedOut"
  /\ handlers[h].tasks[handlers[h].harvest_order[k]].result = NoOutcome

HandlerStarted(h) == handlers[h].timeout_flag # 0

\* C33: two requests handled at once have different tokens, each created
\* with value 0; the token of a request is nonzero, and a document of the
\* request is TimedOut, only if a deadline of that same request elapsed.
C33_TokenPerRequest ==
  \A h \in Handlers :
    HandlerStarted(h) =>
      /\ \A g \in Handlers \ {h} :
           HandlerStarted(g) => handlers[g].timeout_flag # handlers[h].timeout_flag
      /\ ( \/ FlagOf(h) # 0
           \/ \E k \in DOMAIN handlers[h].outcomes :
                /\ handlers[h].outcomes[k].variant = "Failure"
                /\ NonFatalError_into_ErrorCode(handlers[h].outcomes[k].reason)
                     = "TimedOut"
           \/ \E i \in DOMAIN handlers[h].tasks : handlers[h].tasks[i].ts = "Cancelled" )
          => \E k \in DOMAIN handlers[h].outcomes : HandlerElapsedHarvest(h, k)

\* A deadline of one request has elapsed and set its token while the other
\* request, started before it and in progress at the same time, got its
\* lines with its own token still 0.
C33_Witness ==
  \E h \in Handlers, g \in Handlers :
    /\ h # g
    /\ handlers[h].phase = "responded"
    /\ FlagOf(h) = 1
    /\ HandlerElapsedHarvest(h, 1)
    /\ handlers[g].phase = "responded"
    /\ handlers[g].timeout_flag < handlers[h].timeout_flag
    /\ arcs[handlers[g].timeout_flag] = 0
    /\ handlers[g].outcomes[1].variant = "Success"

\* C34: the deadline of a file runs from the creation of its future: a file
\* waiting for a worker has its deadline running or elapsed; when the
\* deadline is seen elapsed with the file still waiting, the outcome is
\* Failure{TimedOut}, the token is set and the file has not run; and when
\* its worker starts afterwards the token it is given is already nonzero.
C34_DeadlineFromCreation ==
  [][\A i \in DOMAIN tasks' :
       /\ (tasks'[i].kind = "timeout" /\ tasks'[i].task = "queued"
             /\ ~tasks'[i].harvested) => tasks'[i].timer \in {"armed", "elapsed"}
       /\ i \in DOMAIN tasks =>
            /\ ( /\ tasks[i].task = "queued"
                 /\ tasks[i].timer = "elapsed"
                 /\ ~tasks[i].harvested
                 /\ tasks'[i].harvested )
               => /\ outcomes'[Len(outcomes')] =
                       Failure(request.files[i].ident, request.files[i].filename,
                               tasks[i].language, "TimedOut")
                  /\ timeout_flag' = 1
                  /\ tasks'[i].task = "queued"
                  /\ tasks'[i].ts = "None"
            /\ ( /\ tasks[i].harvested
                 /\ tasks[i].task = "queued"
                 /\ tasks'[i].task = "running" )
               => /\ timeout_flag # 0
                  /\ timeout_flag' # 0]_vars

\* The request was answered with every file timed out before a worker took
\* it: the token is set and the closures are still waiting in the pool.
C34_Witness ==
  /\ phase = "responded"
  /\ Len(outcomes) = Len(request.files)
  /\ Len(outcomes) >= 1
  /\ timeout_flag = 1
  /\ \A k \in DOMAIN outcomes :
       /\ outcomes[k].variant = "Failure"
       /\ outcomes[k].reason = "TimedOut"
       /\ tasks[harvest_order[k]].task = "queued"
       /\ tasks[harvest_order[k]].ts = "None"

\* C35: a request that decodes is refused with TimeoutTooLarge exactly when
\* its deadline, the default when timeout_ms is 0, is strictly above the
\* maximum: timeout_ms equal to the maximum is accepted, and timeout_ms 0 is
\* refused when the configured default is above the configured maximum.
C35_EffectiveTimeoutChecked ==
  (HandlerEntered /\ request.decodes) =>
    /\ (phase = "rejected") <=>
         ((IF request.timeout_ms = 0 THEN state.default_per_file_timeout
           ELSE request.timeout_ms) > state.max_per_file_timeout)
    /\ phase = "rejected" => response = FatalResponse
    /\ request.timeout_ms = state.max_per_file_timeout => phase # "rejected"
    /\ ( /\ request.timeout_ms = 0
         /\ state.default_per_file_timeout > state.max_per_file_timeout )
       => phase = "rejected"
    /\ ( /\ request.timeout_ms = 0
         /\ state.default_per_file_timeout = state.max_per_file_timeout )
       => phase # "rejected"

\* A request whose timeout_ms is the maximum was answered 200 with the
\* document of its file.
C35_Witness ==
  /\ phase = "responded"
  /\ request.timeout_ms = state.max_per_file_timeout
  /\ timeout = MAX_PER_FILE_TIMEOUT_MS
  /\ response.status = 200
  /\ Len(response.documents) = 1

\* The wire code the pre-scheduling checks give a file when applied in the
\* order language, contents, size; "Pass" when the file is scheduled.
PreSchedulingCode(f) ==
  IF ResolveLanguage(f) = "None" THEN "UnknownLanguage"
  ELSE IF (~f.contents.present) \/ f.contents.len = 0 THEN "NoError"
  ELSE IF f.contents.len > MAX_FILE_SIZE THEN "FileTooLarge"
  ELSE "Pass"

\* C36: the document of a file that fails a pre-scheduling check carries
\* the code of the first check it fails, in the order unresolved language,
\* missing or empty contents, size above the limit; such a file is never
\* given to a worker.
C36_CheckOrder ==
  /\ phase = "responded" =>
       \A k \in 1..Len(response.documents) :
         PreSchedulingCode(FileOfDoc(k)) # "Pass" =>
           response.documents[k].error_code = PreSchedulingCode(FileOfDoc(k))
  /\ \A i \in DOMAIN tasks :
       PreSchedulingCode(request.files[i]) # "Pass" => tasks[i].kind = "ready"

\* The HTML handler: a collected Failure other than InvalidLanguage reports
\* the language resolved for its file.
HtmlFailureKeepsLanguage ==
  \A k \in DOMAIN outcomes :
    (outcomes[k].variant = "Failure" /\ outcomes[k].reason # "InvalidLanguage") =>
      /\ HighlightOutput_language(outcomes[k]) = ResolveLanguage(FileOfDoc(k))
      /\ HighlightOutput_language(outcomes[k]) # "Unspecified"

\* The Spans processor: likewise for the Failure that process returns.
SpansFailureKeepsLanguage ==
  (span_outcome.variant = "Failure" /\ span_outcome.reason # "InvalidLanguage") =>
    /\ HighlightOutput_language(span_outcome) = SpanFile.language
    /\ HighlightOutput_language(span_outcome) # "Unspecified"

\* C37: a Failure made after the language of the file was resolved reports
\* that language and not Unspecified, in the HTML handler and in the Spans
\* processor.
C37_FailureKeepsLanguage ==
  /\ HtmlFailureKeepsLanguage
  /\ SpansFailureKeepsLanguage

\* The byte positions of the buffer a view covers.
ViewRange(view) == (view.offset + 1)..(view.offset + view.len)

ViewInBuffer(k) ==
  /\ ~views[k].panicked
  /\ views[k].offset >= 0
  /\ views[k].offset + views[k].len <= Len(layout.bytes)
  /\ views[k].offset = layout.vectors[k].start
  /\ views[k].len = layout.vectors[k].len
  /\ views[k].bytes = ContentsBytes(layout, layout.vectors[k])

\* C38 as stated: every view is the range [offset, offset + len) of the
\* buffer with offset + len <= len(buffer), holds the bytes of its file's
\* contents, and the views of two files never overlap.
C38_ViewsDisjoint ==
  /\ \A k \in DOMAIN views : ViewInBuffer(k)
  /\ \A k \in DOMAIN views, m \in DOMAIN views :
       k # m => ViewRange(views[k]) \cap ViewRange(views[m]) = {}

\* C38 amended: every view is the range [offset, offset + len) of the buffer
\* with offset + len <= len(buffer) and holds the bytes of its file's
\* contents; the views of two files share exactly the bytes their contents
\* vectors share in the buffer, so they are disjoint when the vectors are.
C38_ViewsInBuffer ==
  /\ \A k \in DOMAIN views : ViewInBuffer(k)
  /\ \A k \in DOMAIN views, m \in DOMAIN views :
       ViewRange(views[k]) \cap ViewRange(views[m]) =
         (layout.vectors[k].start + 1)..(layout.vectors[k].start + layout.vectors[k].len)
           \cap
         (layout.vectors[m].start + 1)..(layout.vectors[m].start + layout.vectors[m].len)

\* The views of two files with separate contents were made, neither at the
\* start of the buffer.
C38_Witness ==
  /\ Len(views) = 2
  /\ views[1].offset > 0
  /\ views[2].offset >= views[1].offset + views[1].len
  /\ views[2].offset + views[2].len = Len(layout.bytes)
  /\ views[1].bytes # views[2].bytes

====
